---- MODULE Spec2Model ----
(***************************************************************************)
(* Model of MODNet's genetic hyper-parameter search.                       *)
(*   src/modnet/hyper_opt/fit_genetic.py : Individual, FitGenetic.run      *)
(*        (parallel variant, multiprocessing pool, nested folds)           *)
(*   src/modnet/fit_genetic.py           : FitGenetic.gen_alg              *)
(*        (single-process variant)                                         *)
(*                                                                         *)
(* Units.  Floats of the source are kept as exact integers:                *)
(*   fractions are in percent (1 -> 100, 0.75 -> 75, ...),                 *)
(*   learning rates in 1/1000 (0.01 -> 10, 0.005 -> 5, 0.001 -> 1),        *)
(*   prob_mut and the uniform draw of np.random.rand() in percent,         *)
(*   a mean loss is the exact rational <<sum, count>>.                     *)
(* An attribute or slot that may be absent (None, or an attribute never    *)
(* assigned) is a sequence: <<>> when absent, <<v>> when it holds v.       *)
(***************************************************************************)
EXTENDS Integers, Sequences, FiniteSets, TLC

\* ------------------------------------------------------------------ bounds
\* largest size_pop tried
MaxPop == 2
\* largest num_generations tried
MaxGen == 4
\* largest size_pop * num_generations tried (candidates evaluated in a run)
MaxCands == 4
\* largest number of successive mutations of one individual tried
MaxMut == 4
\* largest fold count function_fitness is called with
MaxNested == 3
\* largest number of trainings in a run of the single-process gen_alg
MaxTrainings == 6
\* fold losses reported by a worker are drawn from 1..MaxLoss
MaxLoss == 2
\* folds 0..VaryFolds-1 of a candidate report any loss of 1..MaxLoss, the
\* other folds report the loss 1
VaryFolds == 1

\* ------------------------------------------------------- program constants
\* nested = 5, the default of function_fitness, used by every call of run
NestedDefault == 5
\* num_nested_folds = 5, the value a fold count <= 1 is replaced by
FoldsFallback == 5
\* n_jobs = 4 when n_jobs is None
JobsDefault == 4
\* 1e20, the initial entry of val_losses.  TLC's integers have 32 bits; the
\* model keeps the value's only role, being larger than any sum of fold
\* losses, with 10^6.
SENTINEL == 1000000
\* random.sample(range(10), k=5)
NumGenes == 10
GenesFromMother == 5

\* ----------------------------------------------------------------- helpers
Range(s) == {s[i] : i \in 1..Len(s)}

RECURSIVE SumSeq(_)
SumSeq(s) == IF s = <<>> THEN 0 ELSE Head(s) + SumSeq(Tail(s))

Abs(x) == IF x < 0 THEN -x ELSE x

\* ------------------------------------------------------- the random source
\* Every draw of the global random source is a nondeterministic choice.  A
\* specification names which outcomes of a draw it explores: "all" of them,
\* the "ends" of the range (first and last), or only the "lo" or the "hi" end.
\* "lohi" explores two runs of draws: every draw "lo", or every draw "hi".
RandInt(D, lo, hi) ==
    IF lo > hi THEN {}                       \* random.randint raises ValueError
    ELSE IF D = "all" THEN lo..hi
    ELSE IF D = "lo" THEN {lo}
    ELSE IF D = "hi" THEN {hi}
    ELSE {lo, hi}

Choice(D, list) ==
    IF D = "all" THEN Range(list)
    ELSE IF D = "lo" THEN {list[1]}
    ELSE IF D = "hi" THEN {list[Len(list)]}
    ELSE {list[1], list[Len(list)]}

\* random.sample(range(10), k): the k-subsets of the positions 0..9
SampleSets(D, k) ==
    IF D = "all"
    THEN {S \in SUBSET (0..(NumGenes - 1)) : Cardinality(S) = k}
    ELSE {0..(k - 1), (NumGenes - k)..(NumGenes - 1),
          {i \in 0..(NumGenes - 1) : i % 2 = 0 /\ i < 2 * k}}

\* ------------------------------------------------------------- Individual
xscale_list == <<"minmax", "standard">>
lr_list == <<10, 5, 1>>
initial_batch_size_list == <<8, 16, 32, 64, 128>>
fraction_list == <<100, 75, 50, 25>>

\* the keys of self.genes, in the insertion order of the dict literal
GeneKeys ==
    <<"act", "loss", "n_neurons_first_layer", "fraction1", "fraction2",
      "fraction3", "xscale", "lr", "initial_batch_size", "n_feat">>

\* self.genes is an insertion-ordered dict: a sequence of <<key, value>>
GeneValue(genes, key) ==
    genes[CHOOSE i \in 1..Len(genes) : genes[i][1] = key][2]

GeneSetAlt(genes, key, v) ==
    [i \in 1..Len(genes) |->
        IF genes[i][1] = key \/ (key = "fraction3" /\ genes[i][1] = "fraction2")
        THEN <<genes[i][1], v>> ELSE genes[i]]

\* self.genes[key] = v for a key already present: the position is kept
GeneSet(genes, key, v) ==
    [i \in 1..Len(genes) |-> IF genes[i][1] = key THEN <<key, v>> ELSE genes[i]]

\* floor of the square root
ISqrt(n) == CHOOSE r \in 0..n : r * r <= n /\ (r + 1) * (r + 1) > n

\* the values self.genes["n_feat"] may get for a dataset with N optimal
\* descriptors; the empty set when random.randint raises
NFeatDraws(N, D) ==
    IF N <= 100
    THEN LET b == N \div 2 IN {r + b : r \in RandInt(D, 1, b)}
    ELSE IF N < 2000
    THEN {10 * r : r \in RandInt(D, 1, N \div 10)}
    ELSE LET root == ISqrt(N)
         IN  IF root * root = N
             THEN {r * r : r \in RandInt(D, 1, root)}
             ELSE {}                         \* non-integer bound for randint

\* Individual.__init__: the genes a new Individual may hold
NewGenesOf(N, D) ==
    {<< <<"act", "elu">>, <<"loss", "mae">>,
        <<"n_neurons_first_layer", 32 * n>>,
        <<"fraction1", f1>>, <<"fraction2", f2>>, <<"fraction3", f3>>,
        <<"xscale", xs>>, <<"lr", lr>>, <<"initial_batch_size", bs>>,
        <<"n_feat", nf>> >> :
        n \in RandInt(D, 1, 10),
        f1 \in Choice(D, fraction_list),
        f2 \in Choice(D, fraction_list),
        f3 \in Choice(D, fraction_list),
        xs \in Choice(D, xscale_list),
        lr \in Choice(D, lr_list),
        bs \in Choice(D, initial_batch_size_list),
        nf \in NFeatDraws(N, IF D = "feat" THEN "all" ELSE D)}

\* ("feat": every outcome of the draw of n_feat, the ends of the others)
NewGenes(N, D) ==
    IF D = "lohi" THEN NewGenesOf(N, "lo") \cup NewGenesOf(N, "hi")
    ELSE NewGenesOf(N, D)

\* Individual(self.data) raises exactly when the draw of n_feat does
InitRaises(N, D) == NFeatDraws(N, IF D = "lohi" THEN "lo" ELSE D) = {}

\* for 2000 descriptors or more the bound handed to random.randint is the
\* float np.sqrt(...): Python 3.12 and later raise TypeError for it, earlier
\* versions accept a float that is a whole number (with a warning from 3.10)
InitMayRaise(N, D) == InitRaises(N, D) \/ N >= 2000

\* an Individual object: val_loss and model are attributes that __init__
\* does not assign; uid names the candidate the object stands for
Individual(uid, genes) ==
    [uid |-> uid, genes |-> genes, val_loss |-> <<>>, model |-> <<>>]

\* the genes of the child for one drawn genes_from_mother (the Alt form
\* reads self in both branches)
CrossoverGenesAlt(self_genes, partner_genes, genes_from_mother) ==
    [p \in 1..NumGenes |->
        <<self_genes[p][1],
          IF (p - 1) \in genes_from_mother
          THEN self_genes[p][2] ELSE self_genes[p][2]>>]

CrossoverGenes(self_genes, partner_genes, genes_from_mother) ==
    [p \in 1..NumGenes |->
        <<self_genes[p][1],
          IF (p - 1) \in genes_from_mother
          THEN self_genes[p][2] ELSE partner_genes[p][2]>>]

\* Individual.crossover for one drawn genes_from_mother: child =
\* Individual(self.data), whose own random genes are replaced by child_genes
CrossoverWith(self_ind, partner, uid, genes_from_mother) ==
    [Individual(uid, <<>>) EXCEPT
        !.genes = CrossoverGenes(self_ind.genes, partner.genes,
                                 genes_from_mother)]

\* Individual.crossover: the children self and partner may get; the empty
\* set when Individual(self.data) raises
Crossover(self_ind, partner, uid, N, D) ==
    IF InitRaises(N, D) THEN {}
    ELSE {CrossoverWith(self_ind, partner, uid, S) :
            S \in SampleSets(D, GenesFromMother)}

\* np.random.rand() > prob_mut, both in percent; rand() is in [0, 1)
RandDraws == {0, 25, 50, 75, 99}
\* (the Alt form lets the draw that equals prob_mut through)
MutationGateAlt(u, prob_mut) == u >= prob_mut

MutationGate(u, prob_mut) == u > prob_mut

\* i = random.choices([1, 2, 3]) is a list of one element, so neither
\* i == 1 nor i == 2 holds and the else branch runs for every draw
MutatedFraction(i) == "fraction3"

MutateGenesAlt(genes, N, fresh, dfeat, dneur, i, k) ==
    LET g1 == GeneSet(genes, "n_feat",
                      Abs(GeneValue(genes, "n_feat") + dfeat))
        g2 == GeneSet(g1, "n_neurons_first_layer",
                      GeneValue(g1, "n_neurons_first_layer") + 32 * dneur)
        fk == MutatedFraction(i)
        g3 == GeneSet(g2, fk, GeneValue(fresh, fk))
        bs == GeneValue(g3, "initial_batch_size")
        b4 == IF k = -1 THEN bs \div 2 ELSE IF k = 0 THEN bs ELSE 2 * bs
    IN  GeneSet(g3, "initial_batch_size", b4)

\* the body of the if of Individual.mutation, for one outcome of each draw:
\* fresh is the genes of Individual(self.data)
MutateGenes(genes, N, fresh, dfeat, dneur, i, k) ==
    LET g1 == GeneSet(genes, "n_feat",
                      Abs(GeneValue(genes, "n_feat") + dfeat))
        n2 == Abs(GeneValue(g1, "n_neurons_first_layer") + 32 * dneur)
        g2 == GeneSet(g1, "n_neurons_first_layer", IF n2 = 0 THEN 32 ELSE n2)
        fk == MutatedFraction(i)
        g3 == GeneSet(g2, fk, GeneValue(fresh, fk))
        bs == GeneValue(g3, "initial_batch_size")
        \* int(bs * 2 ** k) for k in -1..1
        b4 == IF k = -1 THEN bs \div 2 ELSE IF k = 0 THEN bs ELSE 2 * bs
    IN  GeneSet(g3, "initial_batch_size", b4)

\* Individual.mutation: the genes the individual may hold afterwards; the
\* empty set when Individual(self.data) raises
Mutated(genes, N, D) ==
    LET m == N \div 10                       \* int(0.1 * len(descriptors))
    IN  {MutateGenes(genes, N, fresh, dfeat, dneur, i, k) :
            fresh \in NewGenes(N, D),
            dfeat \in RandInt(D, -m, m),
            dneur \in RandInt(D, -2, 2),
            i \in Choice(D, <<1, 2, 3>>),
            k \in RandInt(D, -1, 1)}

\* Individual.mutation for one outcome u of np.random.rand()
MutationDraw(genes, u, prob_mut, N, D) ==
    IF MutationGate(u, prob_mut)
    THEN (IF D = "lohi"
          THEN Mutated(genes, N, "lo") \cup Mutated(genes, N, "hi")
          ELSE Mutated(genes, N, D))
    ELSE {genes}

Mutation(genes, prob_mut, N, D) ==
    UNION {MutationDraw(genes, u, prob_mut, N, D) : u \in RandDraws}

\* ------------------------------------------------------------------ state
VARIABLES
    \* arguments of run, and len(self.data.get_optimal_descriptors())
    size_pop, num_generations, prob_mut, N,
    \* the outcomes of a random draw this behaviour explores, and the orders
    \* in which the workers deliver results: "any", or "in_order" (of tasks)
    draws, sched,
    \* where the caller of function_fitness stands:
    \*   "start", "evaluating" (inside function_fitness, in its for loop),
    \*   "returned" (function_fitness has returned), "ranked" (ranking and
    \*   best model recorded, loop continues), "done" (run returned),
    \*   "raised" (an exception left run)
    pc,
    \* the exception that left run, "" when none
    error,
    \* run: loop index, self.pop, the three arrays that grow by concatenation,
    \* ranking, best_model_per_gen, self.best_model
    j, self_pop, val_loss, models, individuals, ranking,
    best_model_per_gen, best_model,
    \* function_fitness: arguments pop and nested, n_splits, train_val_datas,
    \* tasks, the tables val_losses / models / individuals, the returned tuple
    ff_pop, nested, n_splits, train_val_datas, tasks,
    ff_val_losses, ff_models, ff_individuals, ret,
    \* the results the workers delivered to this call of function_fitness, as
    \* <<uid of the task's individual, fold_id, loss>>
    delivered,
    \* multiprocessing: every pool created so far ("alive" or "closed"), the
    \* tasks (indexes into tasks) the workers of the last pool are running,
    \* the number of tasks handed to workers, and the (individual_id, fold_id)
    \* of every task whose training raised
    pools, inflight, next_task, failed,
    \* the next fresh object identity
    next_obj,
    \* the operators of Individual applied on their own
    lab,
    \* the single-process FitGenetic (src/modnet/fit_genetic.py): gen_alg and
    \* the call of function_fitness it is in
    gen_alg

cfgVars == <<size_pop, num_generations, prob_mut, N, draws, sched>>
runVars == <<j, self_pop, val_loss, models, individuals, ranking,
             best_model_per_gen, best_model>>
ffVars == <<ff_pop, nested, n_splits, train_val_datas, tasks,
            ff_val_losses, ff_models, ff_individuals, ret, delivered>>
poolVars == <<pools, inflight, next_task, failed>>
vars == <<cfgVars, pc, error, runVars, ffVars, poolVars, next_obj, lab, gen_alg>>

\* --------------------------------------------------------- mean loss, order
\* np.mean of a row of val_losses
Mean(row) == <<SumSeq(row), Len(row)>>

\* a < b and a <= b for means <<sum, count>> with count > 0
LossLT(a, b) == a[1] * b[2] < b[1] * a[2]
LossLE(a, b) == a[1] * b[2] <= b[1] * a[2]

Perms(n) ==
    {p \in [1..n -> 1..n] : \A a, b \in 1..n : a # b => p[a] # p[b]}

\* val_loss.argsort() with the default kind, which numpy documents as not
\* stable: every permutation of the indexes that puts the losses in
\* ascending order is a result some build produces
Argsorts(losses) ==
    {p \in Perms(Len(losses)) :
        \A a, b \in 1..Len(losses) :
            a < b => LossLE(losses[p[a]], losses[p[b]])}

\* ------------------------------------------------------- function_fitness
\* num_nested_folds after lines 199-203 (the Alt form replaces only counts
\* below 1)
NumNestedFoldsAlt(nested_arg) ==
    LET n1 == IF nested_arg # 0 THEN nested_arg ELSE FoldsFallback
    IN  IF n1 < 1 THEN FoldsFallback ELSE n1

NumNestedFolds(nested_arg) ==
    LET n1 == IF nested_arg # 0 THEN nested_arg ELSE FoldsFallback
    IN  IF n1 <= 1 THEN FoldsFallback ELSE n1

\* n_splits after lines 207-211
NSplits(nested_arg) ==
    IF nested_arg = 0 THEN 1 ELSE NumNestedFolds(nested_arg)

\* splits: the partitions of matbench_kfold_splits, or the one partition of
\* train_test_split when nested is falsy
Splits(nested_arg) ==
    IF nested_arg = 0
    THEN << [kind |-> "train_test_split", fold |-> 0, of |-> 1] >>
    ELSE [k \in 1..NumNestedFolds(nested_arg) |->
            [kind |-> "kfold", fold |-> k - 1,
             of |-> NumNestedFolds(nested_arg)]]

\* train_val_datas: self.data.split((train, val)) for every partition
TrainValDatas(nested_arg) ==
    [k \in 1..Len(Splits(nested_arg)) |->
        [train |-> [part |-> "train", split |-> Splits(nested_arg)[k]],
         val |-> [part |-> "val", split |-> Splits(nested_arg)[k]]]]

\* one task of the list; the mutant takes the partition of fold 0 for all
BuildTaskAlt(pop, tvd, i, f) ==
    [individual |-> pop[i + 1],
     train_data |-> tvd[1].train, val_data |-> tvd[1].val,
     individual_id |-> i, fold_id |-> f]

BuildTask(pop, tvd, i, f) ==
    [individual |-> pop[i + 1],
     train_data |-> tvd[f + 1].train, val_data |-> tvd[f + 1].val,
     individual_id |-> i, fold_id |-> f]

\* tasks: for i, individual in enumerate(pop): for j in range(n_splits)
BuildTasks(pop, tvd, ns) ==
    [t \in 1..(Len(pop) * ns) |->
        BuildTask(pop, tvd, (t - 1) \div ns, (t - 1) % ns)]

\* the first tasks go to the n_jobs worker processes
FirstInflight(ntasks, n_jobs) ==
    1..(IF ntasks < n_jobs THEN ntasks ELSE n_jobs)

\* lines 197-240 of function_fitness(pop, nested=nested_arg): tasks, tables
\* and the pool
Dispatch(pop, nested_arg) ==
    LET ns == NSplits(nested_arg)
        tvd == TrainValDatas(nested_arg)
        ts == BuildTasks(pop, tvd, ns)
    IN  /\ ff_pop' = pop
        /\ nested' = nested_arg
        /\ n_splits' = ns
        /\ train_val_datas' = tvd
        /\ tasks' = ts
        /\ ff_val_losses' = [i \in 1..Len(pop) |-> [f \in 1..ns |-> SENTINEL]]
        /\ ff_models' = [i \in 1..Len(pop) |-> [f \in 1..ns |-> <<>>]]
        /\ ff_individuals' = [i \in 1..Len(pop) |-> <<>>]
        /\ ret' = <<>>
        /\ delivered' = {}
        /\ pools' = Append(pools, "alive")
        /\ inflight' = FirstInflight(Len(ts), JobsDefault)
        /\ next_task' = Cardinality(FirstInflight(Len(ts), JobsDefault))
        /\ failed' = {}

\* the losses a worker may report for a fold
FoldLosses(f) == IF f < VaryFolds THEN 1..MaxLoss ELSE {1}

\* Individual.evaluate in the worker, on its copy of the task's individual:
\* the trained MODNetModel and the loss land in the copy
TrainedModel(task) ==
    [of |-> task.individual.uid, genes |-> task.individual.genes,
     train_data |-> task.train_data, val_data |-> task.val_data]

Evaluated(task, l) ==
    [task.individual EXCEPT !.val_loss = <<l>>, !.model = <<TrainedModel(task)>>]

\* a worker that finished task t takes the next task of the list, if any
Refill(t) ==
    /\ inflight' = (inflight \ {t}) \cup
                   (IF next_task < Len(tasks) THEN {next_task + 1} ELSE {})
    /\ next_task' = IF next_task < Len(tasks) THEN next_task + 1 ELSE next_task

\* the table writes of one collected result (the Alt forms file the model
\* under the next fold, the loss under the next individual)
StoreModelAlt(tbl, task, m) ==
    [tbl EXCEPT ![task.individual_id + 1]
                    [((task.fold_id + 1) % Len(tbl[1])) + 1] = <<m>>]

StoreModel(tbl, task, m) ==
    [tbl EXCEPT ![task.individual_id + 1][task.fold_id + 1] = <<m>>]

StoreLossAlt(tbl, task, l) ==
    [tbl EXCEPT ![((task.individual_id + 1) % Len(tbl)) + 1]
                    [task.fold_id + 1] = l]

StoreLoss(tbl, task, l) ==
    [tbl EXCEPT ![task.individual_id + 1][task.fold_id + 1] = l]

\* the tasks whose result may arrive next: any task a worker is running
Arrivals ==
    IF sched = "any" THEN inflight
    ELSE {t \in inflight : \A u \in inflight : t <= u}

\* one iteration of the for loop over pool.imap_unordered (lines 242-250)
Collect ==
    /\ pc = "evaluating"
    /\ \E t \in Arrivals : \E l \in FoldLosses(tasks[t].fold_id) :
        LET task == tasks[t]
            individual == Evaluated(task, l)
        IN  /\ ff_val_losses' = StoreLoss(ff_val_losses, task, l)
            /\ ff_individuals' =
                   [ff_individuals EXCEPT ![task.individual_id + 1] =
                                                               <<individual>>]
            /\ ff_models' = StoreModel(ff_models, task, individual.model[1])
            /\ delivered' = delivered \cup
                             {<<task.individual.uid, task.fold_id, l>>}
            /\ Refill(t)
    /\ UNCHANGED <<cfgVars, pc, error, runVars, ff_pop, nested, n_splits,
                   train_val_datas, tasks, ret, pools, failed, next_obj, lab, gen_alg>>

\* the locals of run and of function_fitness are gone once an exception
\* has left run; self.pop and self.best_model stay
DropLocals ==
    /\ val_loss' = <<>> /\ models' = <<>> /\ individuals' = <<>>
    /\ ranking' = <<>> /\ best_model_per_gen' = <<>>
    /\ ff_pop' = <<>> /\ train_val_datas' = <<>>
    /\ ff_val_losses' = <<>> /\ ff_models' = <<>> /\ ff_individuals' = <<>>
    /\ ret' = <<>> /\ delivered' = {}

\* the tasks whose result has not been collected yet, t among them
Remaining == inflight \cup ((next_task + 1)..Len(tasks))

TaskKey(t) == <<tasks[t].individual_id, tasks[t].fold_id>>

\* the trainings that raise among the tasks the workers still run once the
\* result of task t has raised: none, the other folds of the same
\* individual, or all
LaterFailures(t) ==
    {{},
     {TaskKey(u) : u \in {v \in Remaining \ {t} :
                            tasks[v].individual_id = tasks[t].individual_id}},
     {TaskKey(u) : u \in Remaining \ {t}}}

\* the training of a task raises in its worker: imap_unordered re-raises the
\* exception in the for loop, nothing catches it in function_fitness or in
\* run, and pool.close() / pool.join() (lines 259-260) are not reached.  The
\* pool stays alive and its workers work off the tasks that are left; the
\* step draws the fate of these trainings as well.
CollectRaises ==
    /\ pc = "evaluating"
    /\ \E t \in Arrivals : \E F \in LaterFailures(t) :
        failed' = failed \cup {TaskKey(t)} \cup F
    /\ inflight' = {}
    /\ next_task' = Len(tasks)
    /\ pc' = "raised"
    /\ error' = "EvaluationFailure"
    /\ DropLocals
    /\ UNCHANGED <<cfgVars, j, self_pop, best_model, nested, n_splits, tasks,
                   pools, next_obj, lab, gen_alg>>

\* EnsembleMODNetModel(modnet_models=inner_models): a new object (the Alt
\* form hands the same object to every candidate)
EnsembleAlt(id, inner_models) == [id |-> 1, models |-> inner_models]

Ensemble(id, inner_models) == [id |-> id, models |-> inner_models]

\* the iterator of imap_unordered is exhausted: every task was handed to a
\* worker and no worker is still running one
IterationOverAlt == next_task = Len(tasks)

IterationOver == inflight = {} /\ next_task = Len(tasks)

\* lines 252-262: the for loop is over once every task's result was
\* collected; ensembles, mean losses, pool.close(), pool.join(), return
FitnessReturn ==
    /\ pc = "evaluating"
    /\ IterationOver
    /\ ret' = << [val_loss |-> [i \in 1..Len(ff_pop) |-> Mean(ff_val_losses[i])],
                  models |-> [i \in 1..Len(ff_pop) |->
                                 Ensemble(next_obj + i - 1, ff_models[i])],
                  individuals |-> [i \in 1..Len(ff_pop) |->
                                      ff_individuals[i]]] >>
    /\ next_obj' = next_obj + Len(ff_pop)
    /\ pools' = [pools EXCEPT ![Len(pools)] = "closed"]
    /\ pc' = "returned"
    /\ UNCHANGED <<cfgVars, error, runVars, ff_pop, nested, n_splits,
                   train_val_datas, tasks, ff_val_losses, ff_models,
                   ff_individuals, delivered, inflight, next_task, failed,
                   lab, gen_alg>>

\* -------------------------------------------------------------------- run
\* the configurations of run explored: arguments, dataset width, draws
ProbMutRun == {50}
FeatureCountsRun == {1, 2}
\* for the runs of at most two candidates: draws of both ends and every
\* order of delivery; for the longer ones: draws of the low end and
\* delivery in task order
DrawsRun(p, g) == IF p * g <= 2 THEN "lohi" ELSE "lo"
SchedRun(p, g) == IF p * g <= 2 THEN "any" ELSE "in_order"

\* best_model_per_gen[a] == best_model_per_gen[b]: EnsembleMODNetModel
\* defines no __eq__, so == is the identity of the two objects
SameObject(a, b) == a # <<>> /\ b # <<>> /\ a[1].id = b[1].id

\* lines 279-281: log, initialization_population, the call of
\* function_fitness(self.pop) up to its for loop
Start ==
    /\ pc = "start"
    /\ ~InitRaises(N, draws)
    /\ \E genes \in [1..size_pop -> NewGenes(N, draws)] :
        LET pop == [i \in 1..size_pop |-> Individual(next_obj + i - 1, genes[i])]
        IN  /\ self_pop' = pop
            /\ Dispatch(pop, NestedDefault)
    /\ next_obj' = next_obj + size_pop
    /\ j' = 0
    /\ pc' = "evaluating"
    /\ UNCHANGED <<cfgVars, error, val_loss, models, individuals, ranking,
                   best_model_per_gen, best_model, lab, gen_alg>>

\* Individual(self.data) raises in initialization_population when
\* random.randint gets an empty range
StartRaises ==
    /\ pc = "start"
    /\ InitRaises(N, draws)
    /\ pc' = "raised"
    /\ error' = "ValueError"
    /\ UNCHANGED <<cfgVars, runVars, ffVars, poolVars, next_obj, lab, gen_alg>>

\* the early stopping test of line 315, on the list as it is after line 312
EarlyStop(gen, bests) ==
    gen >= 2 /\ SameObject(bests[gen - 1], bests[gen + 1])

\* the ranking run computes: val_loss.argsort(); the Alt form is descending
RankingsAlt(losses) ==
    {[k \in 1..Len(losses) |-> p[Len(losses) + 1 - k]] : p \in Argsorts(losses)}

Rankings(losses) == Argsorts(losses)

\* run after function_fitness returned: merge, rank, record the best model,
\* test for early stopping, and return when the loop is over
Rank ==
    /\ pc = "returned"
    /\ LET r == ret[1]
           all_loss == IF j = 0 THEN r.val_loss ELSE val_loss \o r.val_loss
           all_models == IF j = 0 THEN r.models ELSE models \o r.models
           all_inds == IF j = 0 THEN r.individuals
                       ELSE individuals \o r.individuals
       IN  \E rk \in Rankings(all_loss) :
            LET bests == [k \in 1..num_generations |->
                             IF k = j + 1 THEN <<all_models[rk[1]]>>
                             ELSE IF j = 0 THEN <<>>
                             ELSE best_model_per_gen[k]]
            IN  /\ val_loss' = all_loss
                /\ models' = all_models
                /\ individuals' = all_inds
                /\ ranking' = rk
                /\ best_model' = <<all_models[rk[1]]>>
                /\ best_model_per_gen' = bests
                /\ pc' = IF EarlyStop(j, bests) \/ j + 1 >= num_generations
                         THEN "done" ELSE "ranked"
    /\ UNCHANGED <<cfgVars, error, j, self_pop, ffVars, poolVars, next_obj, lab, gen_alg>>

\* random.choices(individuals[ranking], weights=weights, k=1)[0]: the
\* weights 1 / l ** 10 are positive for every positive loss, so every member
\* of the pool may be drawn
Parents == 1..Len(individuals)

\* the genes one child may have after crossover and mutation (lines 295-301)
ChildGenes ==
    UNION {UNION {Mutation(c.genes, prob_mut, N, draws) :
                    c \in Crossover(individuals[p1][1], individuals[p2][1],
                                    0, N, draws)} :
            p1 \in Parents, p2 \in Parents}

\* lines 287-304: next iteration of the loop: parents, crossover, mutation,
\* and the call of function_fitness(children) up to its for loop
Breed ==
    /\ pc = "ranked"
    /\ j' = j + 1
    /\ \E genes \in [1..size_pop -> ChildGenes] :
        Dispatch([i \in 1..size_pop |-> Individual(next_obj + i - 1, genes[i])],
                 NestedDefault)
    /\ next_obj' = next_obj + size_pop
    /\ pc' = "evaluating"
    /\ UNCHANGED <<cfgVars, error, self_pop, val_loss, models, individuals,
                   ranking, best_model_per_gen, best_model, lab, gen_alg>>

\* [1 / l ** 10 for l in val_loss[ranking]] (line 291), one quotient
\* <<numerator, denominator>> per entry.  The losses are numpy float64: for
\* l = 0 the division gives inf with a warning, written <<1, 0>>.
RawWeights(losses, rk) ==
    [k \in 1..Len(rk) |->
        <<losses[rk[k]][2] ^ 10, losses[rk[k]][1] ^ 10>>]

RECURSIVE ProdSeq(_)
ProdSeq(s) == IF s = <<>> THEN 1 ELSE Head(s) * ProdSeq(Tail(s))

\* [w / sum(weights) for w in weights] (line 293): with an inf among the
\* weights the sum is inf, inf / inf is nan, written <<0, 0>>, and a finite
\* weight becomes 0
Weights(losses, rk) ==
    LET raw == RawWeights(losses, rk)
        D == ProdSeq([k \in 1..Len(raw) |->
                         IF raw[k][2] = 0 THEN 1 ELSE raw[k][2]])
        scaled == [k \in 1..Len(raw) |->
                      IF raw[k][2] = 0 THEN 0 ELSE raw[k][1] * (D \div raw[k][2])]
    IN  IF \E k \in 1..Len(raw) : raw[k][2] = 0
        THEN [k \in 1..Len(raw) |->
                 IF raw[k][2] = 0 THEN <<0, 0>> ELSE <<0, 1>>]
        ELSE [k \in 1..Len(raw) |-> <<scaled[k], SumSeq(scaled)>>]

\* random.choices(individuals[ranking], weights=weights, k=1)[0]: the
\* positions of individuals[ranking] that may be drawn.  When the total of
\* the weights is nan, Python 3.9 and later raise ValueError ('Total of
\* weights must be finite') and earlier versions bisect with nan, which
\* always gives the last position.
Choices(weights) ==
    IF \E k \in 1..Len(weights) : weights[k][2] = 0
    THEN {[raises |-> TRUE, position |-> 0],
          [raises |-> FALSE, position |-> Len(weights)]}
    ELSE {[raises |-> FALSE, position |-> k] :
            k \in {i \in 1..Len(weights) : weights[i][1] > 0}}

\* ------------------------------------------- single-process FitGenetic
\* src/modnet/fit_genetic.py keeps the genes of a candidate in a list:
\* [n_feat, neurons, fraction, fraction, fraction, act, loss, xscale, lr,
\*  initial_batch_size]
ga_lr_list == <<20, 10, 5>>

\* initialization_population: the lists one entry of self.pop may be; the
\* empty set when randint raises
GANewGenes(n, D) ==
    {<<10 * nf, 32 * nn, f1, f2, f3, "elu", "mae", xs, lr, bs>> :
        nf \in RandInt(D, 1, n \div 10),
        nn \in RandInt(D, 1, 10),
        f1 \in Choice(D, fraction_list),
        f2 \in Choice(D, fraction_list),
        f3 \in Choice(D, fraction_list),
        xs \in Choice(D, xscale_list),
        lr \in Choice(D, ga_lr_list),
        bs \in Choice(D, initial_batch_size_list)}

\* FitGenetic.crossover(mother, father) for one drawn genes_from_mother
GACrossover(mother, father, genes_from_mother) ==
    [p \in 1..NumGenes |->
        IF (p - 1) \in genes_from_mother THEN mother[p] ELSE father[p]]

\* FitGenetic.mutation, one turn of its for loop: c is one child (a list), u
\* the outcome of np.random.rand(), r that of randint(1, 6); 0.9 * n is
\* truncated by int()
GAMutateChild(c, u, p_mut, n, r) ==
    IF MutationGate(u, p_mut)
    THEN IF c[1] < (9 * n) \div 10
         THEN [c EXCEPT ![1] = c[1] + 10 * r]
         ELSE [c EXCEPT ![1] = c[1] - 10 * r]
    ELSE c

\* FitGenetic.mutation(child, p_mut) for the draws us[c], rs[c] of each
\* turn: child is the list of the children, mutated in place and returned
GAMutation(child, us, p_mut, n, rs) ==
    [c \in 1..Len(child) |-> GAMutateChild(child[c], us[c], p_mut, n, rs[c])]

\* ------------------------------------- the operators of Individual, alone
\* the dataset widths and the parents the operators are applied to: new
\* individuals of all-low and all-high draws and their mutations, each
\* evaluated once (so that val_loss and model are set)
FeatureCountsLab == {20}
\* the dataset widths a new individual is made for: the three branches of
\* the size rule and their borders
FeatureCountsNew == {1, 2, 3, 20, 100, 110, 2000, 2025}

GenesLab(n) ==
    NewGenes(n, "lohi") \cup
    UNION {Mutated(g, n, "lo") \cup Mutated(g, n, "hi") :
            g \in NewGenes(n, "lohi")}

EvaluatedLab(uid, genes) ==
    Evaluated(BuildTask(<<Individual(uid, genes)>>,
                        TrainValDatas(NestedDefault), 0, 0), 1)

InitLab ==
    /\ size_pop = 0 /\ num_generations = 0 /\ prob_mut = 0
    /\ draws = "all" /\ sched = "any"
    /\ pc = "lab"
    /\ error = ""
    /\ j = 0
    /\ self_pop = <<>> /\ val_loss = <<>> /\ models = <<>>
    /\ individuals = <<>> /\ ranking = <<>>
    /\ best_model_per_gen = <<>> /\ best_model = <<>>
    /\ ff_pop = <<>> /\ nested = 0 /\ n_splits = 0
    /\ train_val_datas = <<>> /\ tasks = <<>>
    /\ ff_val_losses = <<>> /\ ff_models = <<>> /\ ff_individuals = <<>>
    /\ ret = <<>> /\ delivered = {}
    /\ pools = <<>> /\ inflight = {} /\ next_task = 0 /\ failed = {}
    /\ next_obj = 3
    /\ gen_alg = [site |-> "none"]
    /\ \/ /\ N \in FeatureCountsLab
          /\ \E ga \in GenesLab(N), gb \in GenesLab(N) :
              lab = [op |-> "parents",
                     a |-> EvaluatedLab(1, ga), b |-> EvaluatedLab(2, gb)]
       \/ /\ N \in FeatureCountsNew
          /\ lab = [op |-> "fresh"]

\* child = a.crossover(b)
LabCrossover ==
    /\ pc = "lab"
    /\ lab.op = "parents"
    /\ ~InitRaises(N, draws)
    /\ \E S \in SampleSets(draws, GenesFromMother) :
        lab' = [op |-> "crossover", a |-> lab.a, b |-> lab.b,
                self |-> lab.a, partner |-> lab.b, sample |-> S,
                child |-> CrossoverWith(lab.a, lab.b, next_obj, S)]
    /\ next_obj' = next_obj + 1
    /\ UNCHANGED <<cfgVars, pc, error, runVars, ffVars, poolVars, gen_alg>>

\* the list of a genes dict's values, in the order of the single-process
\* variant's list
AsList(genes) ==
    <<GeneValue(genes, "n_feat"), GeneValue(genes, "n_neurons_first_layer"),
      GeneValue(genes, "fraction1"), GeneValue(genes, "fraction2"),
      GeneValue(genes, "fraction3"), GeneValue(genes, "act"),
      GeneValue(genes, "loss"), GeneValue(genes, "xscale"),
      GeneValue(genes, "lr"), GeneValue(genes, "initial_batch_size")>>

\* child = FitGenetic.crossover(mother, father) of the single-process
\* variant, on the lists of the two parents' values
LabListCrossover ==
    /\ pc = "lab"
    /\ lab.op = "parents"
    /\ \E S \in SampleSets(draws, GenesFromMother) :
        lab' = [op |-> "list_crossover", a |-> lab.a, b |-> lab.b,
                mother |-> AsList(lab.a.genes), father |-> AsList(lab.b.genes),
                sample |-> S,
                child |-> GACrossover(AsList(lab.a.genes),
                                      AsList(lab.b.genes), S)]
    /\ UNCHANGED <<cfgVars, pc, error, runVars, ffVars, poolVars, next_obj, gen_alg>>

\* the values of prob_mut the operators are tried with (percent)
ProbMutLab == {0, 50, 100}

\* ------------------------------------------------ the two random generators
\* The operators draw from two global generators: the one of Python's
\* module random (random.randint, random.choice, random.sample,
\* random.choices) and the one of numpy (np.random.rand).  random.seed sets
\* the state of the first only.  A generator is modelled as a state and a
\* step function of full period; a draw reads the state and steps it.
PySeeds == 0..15
PyStep(s) == (5 * s + 3) % 16

RECURSIVE PyAt(_, _)
\* the state of the generator after k draws
PyAt(s, k) == IF k = 0 THEN s ELSE PyAt(PyStep(s), k - 1)

\* random.randint(lo, hi) and random.choice(list) in the state s
SeededRandInt(s, lo, hi) == lo + (s % (hi - lo + 1))
SeededChoice(s, list) == list[1 + (s % Len(list))]

\* random.sample(range(10), k=5) in the state s
SeededSample(s) ==
    {(i + s) % NumGenes : i \in {0, 2, 4, 6, 8 + (s % 2)}}

\* the states of numpy's generator and the value np.random.rand() returns
\* in each
NpStates == 0..4
SeededRand(n) == <<0, 25, 50, 75, 99>>[n + 1]

\* self.genes["n_feat"] of a new Individual whose draw of n_feat happens in
\* the state s (widths for which random.randint does not raise)
SeededNFeat(n, s) ==
    IF n <= 100
    THEN SeededRandInt(s, 1, n \div 2) + n \div 2
    ELSE IF n < 2000
    THEN 10 * SeededRandInt(s, 1, n \div 10)
    ELSE SeededRandInt(s, 1, ISqrt(n)) * SeededRandInt(s, 1, ISqrt(n))

\* the number of draws Individual.__init__ makes
DrawsOfInit == 8

\* Individual(self.data) with the generator in the state s
SeededNewGenes(n, s) ==
    << <<"act", "elu">>, <<"loss", "mae">>,
       <<"n_neurons_first_layer", 32 * SeededRandInt(s, 1, 10)>>,
       <<"fraction1", SeededChoice(PyAt(s, 1), fraction_list)>>,
       <<"fraction2", SeededChoice(PyAt(s, 2), fraction_list)>>,
       <<"fraction3", SeededChoice(PyAt(s, 3), fraction_list)>>,
       <<"xscale", SeededChoice(PyAt(s, 4), xscale_list)>>,
       <<"lr", SeededChoice(PyAt(s, 5), lr_list)>>,
       <<"initial_batch_size", SeededChoice(PyAt(s, 6), initial_batch_size_list)>>,
       <<"n_feat", SeededNFeat(n, PyAt(s, 7))>> >>

\* self.crossover(partner) with the generator in the state s: the sample is
\* drawn first, the draws of Individual(self.data) come after it
SeededCrossover(self_ind, partner, uid, s) ==
    CrossoverWith(self_ind, partner, uid, SeededSample(s))

\* self.mutation(prob_mut) with random's generator in the state s and
\* numpy's in the state n: the genes afterwards
SeededMutation(genes, p_mut, n_desc, s, n) ==
    IF MutationGate(SeededRand(n), p_mut)
    THEN LET m == n_desc \div 10
             after == PyAt(s, DrawsOfInit)
         IN  MutateGenes(genes, n_desc, SeededNewGenes(n_desc, s),
                         SeededRandInt(after, -m, m),
                         SeededRandInt(PyAt(after, 1), -2, 2),
                         SeededChoice(PyAt(after, 2), <<1, 2, 3>>),
                         SeededRandInt(PyAt(after, 3), -1, 1))
    ELSE genes

\* one execution: random.seed(seed), then Individual(data), a.crossover(b)
\* and a.mutation(prob_mut), each from the seeded state
Execution(a, b, p_mut, n_desc, seed, n) ==
    [new |-> SeededNewGenes(n_desc, seed),
     child |-> SeededCrossover(a, b, 0, seed).genes,
     mutated |-> SeededMutation(a.genes, p_mut, n_desc, seed, n)]

\* two executions on the same inputs after random.seed(seed) with the same
\* seed; numpy's generator is in the state its own seeding left it in
LabReplay ==
    /\ pc = "lab"
    /\ lab.op = "parents"
    /\ \E pm \in ProbMutLab, seed \in PySeeds, n1 \in NpStates, n2 \in NpStates :
        lab' = [op |-> "replay", prob_mut |-> pm, seed |-> seed,
                np1 |-> n1, np2 |-> n2, genes |-> lab.a.genes,
                first |-> Execution(lab.a, lab.b, pm, N, seed, n1),
                second |-> Execution(lab.a, lab.b, pm, N, seed, n2)]
    /\ UNCHANGED <<cfgVars, pc, error, runVars, ffVars, poolVars, next_obj, gen_alg>>

\* the outcomes of the draws of one mutation that are tried: fresh is the
\* genes of Individual(self.data), the others are the four random.randint /
\* random.choices results in the order of the source.  Every draw at its low
\* end, every draw at its high end, and each of the two with the step of the
\* neurons or the chosen fraction replaced by any of its outcomes.
DrawsAt(n, D) ==
    {[fresh |-> fresh, dfeat |-> dfeat, dneur |-> dneur, i |-> i, k |-> k] :
        fresh \in NewGenes(n, D),
        dfeat \in RandInt(D, -(n \div 10), n \div 10),
        dneur \in RandInt(D, -2, 2),
        i \in Choice(D, <<1, 2, 3>>),
        k \in RandInt(D, -1, 1)}

DrawsLab(n) ==
    UNION {{b} \cup
           {[b EXCEPT !.dneur = d] : d \in RandInt("all", -2, 2)} \cup
           {[b EXCEPT !.i = c] : c \in Choice("all", <<1, 2, 3>>)} :
            b \in DrawsAt(n, "lo") \cup DrawsAt(n, "hi")}

\* no draw is made when the gate stays shut
NoDraws == [fresh |-> <<>>, dfeat |-> 0, dneur |-> 0, i |-> 0, k |-> 0]

\* a.mutation(prob_mut), and again on the same individual, up to MaxMut times
\* along one line: before and after are self.genes around the call, u the
\* outcome of np.random.rand(), fired whether the body of the if ran, drawn
\* the outcomes of its draws
LabMutation ==
    /\ pc = "lab"
    /\ \/ lab.op = "parents"
       \/ lab.op = "mutation" /\ lab.depth < MaxMut
    /\ \E pm \in ProbMutLab, u \in RandDraws :
        LET before == IF lab.op = "parents" THEN lab.a.genes ELSE lab.after
            depth == IF lab.op = "parents" THEN 1 ELSE lab.depth + 1
        IN  IF MutationGate(u, pm)
            THEN \E d \in DrawsLab(N) :
                    lab' = [op |-> "mutation", prob_mut |-> pm, u |-> u,
                            fired |-> TRUE, drawn |-> d, before |-> before,
                            after |-> MutateGenes(before, N, d.fresh, d.dfeat,
                                                  d.dneur, d.i, d.k),
                            depth |-> depth]
            ELSE lab' = [op |-> "mutation", prob_mut |-> pm, u |-> u,
                         fired |-> FALSE, drawn |-> NoDraws, before |-> before,
                         after |-> before, depth |-> depth]
    /\ UNCHANGED <<cfgVars, pc, error, runVars, ffVars, poolVars, next_obj, gen_alg>>

\* ---- the objects of one breeding step (lines 298-301).  self.genes is a
\* reference to a dict: heap[r] is the content of the dict at address r, and
\* an Individual holds the address of its genes.
CrossoverObjectAlt(heap, self_ref, partner_ref, fresh, S) ==
    [heap |-> [Append(heap, fresh) EXCEPT
                  ![self_ref] = CrossoverGenes(heap[self_ref],
                                               heap[partner_ref], S)],
     genes |-> self_ref]

\* Individual.crossover: the dict comprehension of lines 65-67 makes a new
\* dict child_genes out of the values of the two parents' dicts; the child is
\* a new Individual (whose constructor made the dict `fresh`) and its genes
\* attribute is bound to child_genes
CrossoverObject(heap, self_ref, partner_ref, fresh, S) ==
    [heap |-> heap \o <<fresh, CrossoverGenes(heap[self_ref],
                                              heap[partner_ref], S)>>,
     genes |-> Len(heap) + 2]

\* c.mutation(prob_mut): the item assignments of lines 86-103 write into
\* the dict self.genes refers to; d.fresh is the dict of Individual(self.data)
MutationObject(heap, ref, u, p_mut, n, d) ==
    IF MutationGate(u, p_mut)
    THEN [Append(heap, d.fresh) EXCEPT
             ![ref] = MutateGenes(heap[ref], n, d.fresh, d.dfeat, d.dneur,
                                  d.i, d.k)]
    ELSE heap

\* parents_1[i].crossover(parents_2[i]) and the mutation of the child, for
\* the two evaluated parents in every pairing (a parent may be drawn twice),
\* and the evaluation of the child by a worker, which works on a copy.  The
\* dicts of the parents are at the addresses 1 and 2.
LabBreed ==
    /\ pc = "lab"
    /\ lab.op = "parents"
    /\ \E x \in 1..2, y \in 1..2, S \in SampleSets("lo", GenesFromMother),
          pm \in ProbMutLab, u \in RandDraws,
          fresh \in NewGenes(N, "lo"),
          d \in DrawsAt(N, "lo") \cup DrawsAt(N, "hi") :
        LET c == CrossoverObject(<<lab.a.genes, lab.b.genes>>, x, y, fresh, S)
            heap == MutationObject(c.heap, c.genes, u, pm, N, d)
        IN  lab' = [op |-> "breed", a |-> lab.a, b |-> lab.b,
                    pair |-> <<x, y>>, fired |-> MutationGate(u, pm),
                    child |-> c.genes, heap |-> heap,
                    result |-> EvaluatedLab(3, heap[c.genes])]
    /\ UNCHANGED <<cfgVars, pc, error, runVars, ffVars, poolVars, next_obj, gen_alg>>

\* the lists of children the single-process mutation is tried on: one or two
\* entries of a population of initialization_population
ChildListsLab(n) ==
    LET new == GANewGenes(n, "lo") \cup GANewGenes(n, "hi")
    IN  {<<c>> : c \in new} \cup {<<c, d>> : c \in new, d \in new}

\* child = FitGenetic.mutation(child, prob_mut) of the single-process variant
LabListMutation ==
    /\ pc = "lab"
    /\ lab.op = "parents"
    /\ \E pm \in ProbMutLab, child \in ChildListsLab(N) :
        \E us \in [1..Len(child) -> RandDraws],
           rs \in [1..Len(child) -> RandInt("ends", 1, 6)] :
            lab' = [op |-> "list_mutation", prob_mut |-> pm, u |-> us,
                    before |-> child,
                    after |-> GAMutation(child, us, pm, N, rs)]
    /\ UNCHANGED <<cfgVars, pc, error, runVars, ffVars, poolVars, next_obj, gen_alg>>

\* the mean losses the parent selection is tried on: 0, 1 and 2 (a mean
\* absolute error is never negative), in pools of one and of two candidates
LossesLab == {<<0, 1>>, <<1, 1>>, <<2, 1>>}
PoolsLab == {<<l>> : l \in LossesLab} \cup {<<l, m>> : l \in LossesLab, m \in LossesLab}

\* lines 291-295 of run for one pool: weights, and one parent drawn
LabSelect ==
    /\ pc = "lab"
    /\ lab.op = "parents"
    /\ \E losses \in PoolsLab : \E rk \in Argsorts(losses) :
        \E c \in Choices(Weights(losses, rk)) :
            lab' = [op |-> "select", val_loss |-> losses, ranking |-> rk,
                    raw |-> RawWeights(losses, rk),
                    weights |-> Weights(losses, rk), parent |-> c]
    /\ UNCHANGED <<cfgVars, pc, error, runVars, ffVars, poolVars, next_obj, gen_alg>>

\* Individual(self.data) on a dataset of N optimal descriptors
LabNew ==
    /\ pc = "lab"
    /\ lab.op = "fresh"
    /\ \/ /\ InitMayRaise(N, "feat")
          /\ lab' = [op |-> "new", raises |-> TRUE, genes |-> <<>>]
       \/ \E g \in NewGenes(N, "feat") :
             lab' = [op |-> "new", raises |-> FALSE, genes |-> g]
    /\ UNCHANGED <<cfgVars, pc, error, runVars, ffVars, poolVars, next_obj, gen_alg>>

\* one entry of the population of the single-process variant's
\* initialization_population, on a dataset of N optimal descriptors
LabListNew ==
    /\ pc = "lab"
    /\ lab.op = "fresh"
    /\ \/ /\ GANewGenes(N, "ends") = {}
          /\ lab' = [op |-> "list_new", raises |-> TRUE, genes |-> <<>>]
       \/ \E g \in GANewGenes(N, "ends") :
             lab' = [op |-> "list_new", raises |-> FALSE, genes |-> g]
    /\ UNCHANGED <<cfgVars, pc, error, runVars, ffVars, poolVars, next_obj, gen_alg>>

NextLab ==
    \/ LabBreed
    \/ LabNew
    \/ LabListNew
    \/ LabCrossover
    \/ LabListCrossover
    \/ LabMutation
    \/ LabListMutation
    \/ LabSelect
    \/ LabReplay

SpecLab == InitLab /\ [][NextLab]_vars

\* ------------------------------------------- function_fitness, called alone
\* function_fitness(pop, nested=nested_arg) on a population of new
\* individuals, for the fold counts -1..MaxNested
NestedArgs == (-1)..MaxNested

InitFit ==
    /\ size_pop \in 1..MaxPop
    /\ num_generations = 0 /\ prob_mut = 0
    /\ N = 2
    /\ draws = "lo"
    /\ sched = SchedRun(size_pop, 1)
    /\ pc = "call"
    /\ error = ""
    /\ j = 0
    /\ \E genes \in [1..size_pop -> NewGenes(N, draws)] :
        self_pop = [i \in 1..size_pop |-> Individual(i, genes[i])]
    /\ val_loss = <<>> /\ models = <<>>
    /\ individuals = <<>> /\ ranking = <<>>
    /\ best_model_per_gen = <<>> /\ best_model = <<>>
    /\ ff_pop = <<>> /\ nested = 0 /\ n_splits = 0
    /\ train_val_datas = <<>> /\ tasks = <<>>
    /\ ff_val_losses = <<>> /\ ff_models = <<>> /\ ff_individuals = <<>>
    /\ ret = <<>> /\ delivered = {}
    /\ pools = <<>> /\ inflight = {} /\ next_task = 0 /\ failed = {}
    /\ next_obj = size_pop + 1
    /\ lab = [op |-> "none"]
    /\ gen_alg = [site |-> "none"]

\* the call, up to the for loop
CallFitness ==
    /\ pc = "call"
    /\ \E nested_arg \in NestedArgs : Dispatch(self_pop, nested_arg)
    /\ pc' = "evaluating"
    /\ UNCHANGED <<cfgVars, error, runVars, next_obj, lab, gen_alg>>

NextFit ==
    \/ CallFitness
    \/ Collect
    \/ CollectRaises
    \/ FitnessReturn

SpecFit == InitFit /\ [][NextFit]_vars

\* ------------------------------------------------------------ specification
NoLab == [op |-> "none"]
NoGA == [site |-> "none"]

Init ==
    /\ size_pop \in 1..MaxPop
    /\ num_generations \in 1..MaxGen
    /\ size_pop * num_generations <= MaxCands
    /\ prob_mut \in ProbMutRun
    /\ N \in FeatureCountsRun
    /\ draws = DrawsRun(size_pop, num_generations)
    /\ sched = SchedRun(size_pop, num_generations)
    /\ pc = "start"
    /\ error = ""
    /\ j = 0
    /\ self_pop = <<>> /\ val_loss = <<>> /\ models = <<>>
    /\ individuals = <<>> /\ ranking = <<>>
    /\ best_model_per_gen = <<>> /\ best_model = <<>>
    /\ ff_pop = <<>> /\ nested = 0 /\ n_splits = 0
    /\ train_val_datas = <<>> /\ tasks = <<>>
    /\ ff_val_losses = <<>> /\ ff_models = <<>> /\ ff_individuals = <<>>
    /\ ret = <<>> /\ delivered = {}
    /\ pools = <<>> /\ inflight = {} /\ next_task = 0 /\ failed = {}
    /\ next_obj = 1
    /\ lab = NoLab
    /\ gen_alg = NoGA

Next ==
    \/ Start
    \/ StartRaises
    \/ Collect
    \/ CollectRaises
    \/ FitnessReturn
    \/ Rank
    \/ Breed

Spec == Init /\ [][Next]_vars

\* the same with progress: run is a sequential program and the workers of
\* the pool finish every task they were given, so a step that can be taken
\* is taken
SpecFair == Spec /\ WF_vars(Next)

\* ------------------------------------ gen_alg of the single-process variant
\* In this specification num_generations stands for num_epochs.  A candidate
\* is a list object: [id |-> its identity, w |-> the list]; a row of
\* self.fitness is [f, model, w] with the candidate itself as w.
\* The sizes gen_alg is run with: at most MaxTrainings trainings in a run
\* (size_pop for the initial population and for each of the two calls of
\* function_fitness of an epoch)
GASizes ==
    {sz \in (1..MaxPop) \X (1..MaxGen) : sz[1] * (1 + 2 * sz[2]) <= MaxTrainings}

\* what the try block of one candidate does: the four fits and predict raise,
\* or mse gives f
TrainingOutcomes ==
    {[raises |-> TRUE, f |-> 0]} \cup
    {[raises |-> FALSE, f |-> l] : l \in 0..MaxLoss}

RecordedAlt(fitness, o, model, w) ==
    Append(fitness, [f |-> IF o.raises THEN SENTINEL ELSE o.f,
                     model |-> model, w |-> w])

\* lines 215-222: self.fitness after the try statement of candidate w
Recorded(fitness, o, model, w) ==
    IF o.raises THEN fitness
    ELSE Append(fitness, [f |-> o.f, model |-> model, w |-> w])

\* sorted(rows, key=lambda x: x[0]): ascending, and stable
Sorted(rows) ==
    LET n == Len(rows)
        place(i) == Cardinality({k \in 1..n :
                        \/ rows[k].f < rows[i].f
                        \/ rows[k].f = rows[i].f /\ k < i}) + 1
    IN  [q \in 1..n |-> rows[CHOOSE i \in 1..n : place(i) = q]]

\* sort[0:size_pop, :]
Truncated(rows, n) == SubSeq(rows, 1, IF Len(rows) < n THEN Len(rows) ELSE n)

\* the loop variable w of line 213 at turn `at`: the source iterates over
\* self.pop, whatever the argument pop is
LoopCandidate(self_pop_, arg_pop, at) == self_pop_[at]

InitGA ==
    /\ \E sz \in GASizes : size_pop = sz[1] /\ num_generations = sz[2]
    /\ prob_mut \in ProbMutRun
    /\ N \in FeatureCountsLab
    /\ draws \in {"lo", "hi"} /\ sched = "any"
    /\ pc = "ga_start"
    /\ error = ""
    /\ j = 0
    /\ self_pop = <<>> /\ val_loss = <<>> /\ models = <<>>
    /\ individuals = <<>> /\ ranking = <<>>
    /\ best_model_per_gen = <<>> /\ best_model = <<>>
    /\ ff_pop = <<>> /\ nested = 0 /\ n_splits = 0
    /\ train_val_datas = <<>> /\ tasks = <<>>
    /\ ff_val_losses = <<>> /\ ff_models = <<>> /\ ff_individuals = <<>>
    /\ ret = <<>> /\ delivered = {}
    /\ pools = <<>> /\ inflight = {} /\ next_task = 0 /\ failed = {}
    /\ next_obj = 1
    /\ lab = [op |-> "none"]
    /\ gen_alg = [site |-> "none"]

\* function_fitness(pop, ...) up to its for loop, called from `site` of
\* gen_alg: self.fitness = [], the loop at its first turn
CallGA(g, site, pop) ==
    [g EXCEPT !.site = site, !.arg_pop = pop, !.fitness = <<>>, !.at = 1]

\* lines 252-253: initialization_population and the call of
\* function_fitness(pop)
GAStart ==
    /\ pc = "ga_start"
    /\ \E ws \in [1..size_pop -> GANewGenes(N, "lo") \cup GANewGenes(N, "hi")] :
        LET pop == [c \in 1..size_pop |-> [id |-> next_obj + c - 1, w |-> ws[c]]]
        IN  gen_alg' = [site |-> "pop", self_pop |-> pop, arg_pop |-> pop,
                        fitness |-> <<>>, at |-> 1,
                        pop_fitness_sort |-> <<>>, child_2 |-> <<>>,
                        fitness_child_1 |-> <<>>, j |-> 0,
                        best_individual |-> <<>>, best_losses |-> <<>>,
                        trained |-> <<>>]
    /\ next_obj' = next_obj + size_pop
    /\ pc' = "ga_fitness"
    /\ UNCHANGED <<cfgVars, error, runVars, ffVars, poolVars, lab>>

\* one turn of the for loop of function_fitness (lines 213-222): a new
\* MODNetModel, the try block, and the except that passes.  trained is the
\* history of the run: which candidate was trained, in which call, and how
\* the try block ended.
GATrain ==
    /\ pc = "ga_fitness"
    /\ gen_alg.at <= Len(gen_alg.self_pop)
    /\ \E o \in TrainingOutcomes :
        LET w == LoopCandidate(gen_alg.self_pop, gen_alg.arg_pop, gen_alg.at)
        IN  gen_alg' = [gen_alg EXCEPT
                !.fitness = Recorded(@, o, next_obj, w),
                !.at = @ + 1,
                !.trained = Append(@, [site |-> gen_alg.site, j |-> gen_alg.j,
                                       id |-> w.id, model |-> next_obj,
                                       outcome |-> o])]
    /\ next_obj' = next_obj + 1
    /\ UNCHANGED <<cfgVars, pc, error, runVars, ffVars, poolVars, lab>>

\* lines 263-264 and the mutation of line 265 on the lists of one generation:
\* the draws are those of `draws`, genes_from_mother is S for every crossover
BredChildren(parent_1, parent_2, S, first_id) ==
    LET n == IF Len(parent_1) < Len(parent_2) THEN Len(parent_1)
             ELSE Len(parent_2)
        c1 == [i \in 1..n |-> GACrossover(parent_1[i].w, parent_2[i].w, S)]
        c2 == [i \in 1..n |-> GACrossover(parent_2[i].w, parent_1[i].w, S)]
        u == CHOOSE x \in RandInt(draws, 0, 99) : TRUE
        r == CHOOSE x \in RandInt(draws, 1, 6) : TRUE
        m2 == GAMutation(c2, [i \in 1..n |-> u], prob_mut, N, [i \in 1..n |-> r])
    IN  [child_1 |-> [i \in 1..n |-> [id |-> first_id + i - 1, w |-> c1[i]]],
         child_2 |-> [i \in 1..n |-> [id |-> first_id + n + i - 1, w |-> m2[i]]]]

\* lines 256-268: one turn of the loop of gen_alg up to the for loop of
\* function_fitness(child_1).  With no row in pop_fitness_sort the array has
\* one dimension and [:, 2] raises IndexError.
GABreed ==
    /\ pc = "ga_loop"
    /\ IF gen_alg.pop_fitness_sort = <<>>
       THEN /\ pc' = "ga_raised"
            /\ error' = "IndexError"
            /\ UNCHANGED <<gen_alg, next_obj>>
       ELSE \E S \in SampleSets(draws, GenesFromMother) :
            LET rows == gen_alg.pop_fitness_sort
                length == Len(rows)
                parent_1 == [i \in 1..(length \div 2) |-> rows[i].w]
                parent_2 == [i \in 1..(length - length \div 2) |->
                                rows[length \div 2 + i].w]
                bred == BredChildren(parent_1, parent_2, S, next_obj)
            IN  /\ gen_alg' = [CallGA(gen_alg, "child_1", bred.child_1)
                                  EXCEPT !.child_2 = bred.child_2]
                /\ next_obj' = next_obj + 2 * Len(bred.child_1)
                /\ pc' = "ga_fitness"
                /\ UNCHANGED error
    /\ UNCHANGED <<cfgVars, runVars, ffVars, poolVars, lab>>

\* np.concatenate((pop_fitness_sort, fitness_child_1, fitness_child_2)): the
\* first is an array of rows, an empty list is an array of one dimension,
\* and arrays of different dimensions make numpy raise ValueError
ConcatenateRaises(fitness_child_1, fitness_child_2) ==
    fitness_child_1 = <<>> \/ fitness_child_2 = <<>>

\* function_fitness returns self.fitness (line 223) and gen_alg goes on from
\* the call: line 254 after the first call, line 269 after the second, lines
\* 270-274 after the third
GAReturn ==
    /\ pc = "ga_fitness"
    /\ gen_alg.at > Len(gen_alg.self_pop)
    /\ IF gen_alg.site = "pop"
       THEN /\ gen_alg' = [gen_alg EXCEPT !.site = "loop",
                              !.pop_fitness_sort = Sorted(gen_alg.fitness)]
            /\ pc' = "ga_loop"
            /\ UNCHANGED error
       ELSE IF gen_alg.site = "child_1"
       THEN /\ gen_alg' = [CallGA(gen_alg, "child_2", gen_alg.child_2)
                              EXCEPT !.fitness_child_1 = gen_alg.fitness]
            /\ UNCHANGED <<pc, error>>
       ELSE IF ConcatenateRaises(gen_alg.fitness_child_1, gen_alg.fitness)
       THEN /\ pc' = "ga_raised"
            /\ error' = "ValueError"
            /\ UNCHANGED gen_alg
       ELSE LET sort == Sorted(gen_alg.pop_fitness_sort \o
                               gen_alg.fitness_child_1 \o gen_alg.fitness)
            IN  /\ gen_alg' = [gen_alg EXCEPT !.site = "loop",
                                  !.pop_fitness_sort = Truncated(sort, size_pop),
                                  !.best_individual = <<sort[1].model>>,
                                  !.best_losses = Append(@, sort[1].f),
                                  !.j = @ + 1]
                /\ pc' = IF gen_alg.j + 1 < num_generations THEN "ga_loop"
                         ELSE "ga_done"
                /\ UNCHANGED error
    /\ UNCHANGED <<cfgVars, runVars, ffVars, poolVars, next_obj, lab>>

NextGA ==
    \/ GAStart
    \/ GATrain
    \/ GAReturn
    \/ GABreed

SpecGA == InitGA /\ [][NextGA]_vars


\* ----------------------------------------------------------------- claims
\* generation g's entry of best_model_per_gen and its two predecessors are
\* one and the same object
ThreeSame(g) ==
    /\ SameObject(best_model_per_gen[g - 1], best_model_per_gen[g])
    /\ SameObject(best_model_per_gen[g], best_model_per_gen[g + 1])

\* the position in the pool of the candidate that owns self.best_model
BestIndexes == {k \in 1..Len(models) : models[k].id = best_model[1].id}

\* C1: when a generation has been ranked and the loop goes on, the pool the
\* parents of the next generation are sampled from holds exactly size_pop
\* candidates.
C1_PoolTruncated == pc = "ranked" => Len(individuals) = size_pop

\* C2: a training that raises in a worker is recovered inside
\* function_fitness: no exception leaves run because of it.
C2_FailureRecovered == failed # {} => (pc # "raised" /\ error = "")

\* C3: whenever function_fitness has returned for a generation (run is about
\* to rank, has ranked, or has returned), no task of that generation is
\* outstanding: every task was handed to a worker, no worker is running one,
\* and the result of every (individual, fold) pair is in the tables.
C3_NoPartialGeneration ==
    pc \in {"returned", "ranked", "done"} =>
        /\ inflight = {}
        /\ next_task = Len(tasks)
        /\ Len(tasks) = Len(ff_pop) * n_splits
        /\ \A t \in 1..Len(tasks) :
            ff_models[tasks[t].individual_id + 1][tasks[t].fold_id + 1] # <<>>
        /\ pools[Len(pools)] = "closed"

\* the loop has ranked generation 0 of a run whose results arrived in an
\* order other than the task order
C3_Witness ==
    /\ pc = "ranked"
    /\ sched = "any"
    /\ Len(tasks) = NestedDefault
    /\ ff_individuals[1][1].model[1].val_data.split.fold = 2

\* C4: run leaves the loop at a generation j before the budget is used up
\* only if j >= 2 and the best Ensembles of generations j-2, j-1 and j are one
\* object; it goes on after a generation j >= 2 only if they are not; and it
\* returns the best Ensemble of the generation it stopped at.
C4_EarlyStopIffThreeSame ==
    /\ (pc = "done" /\ j + 1 < num_generations) => (j >= 2 /\ ThreeSame(j))
    /\ (pc = "ranked" /\ j >= 2) => ~ThreeSame(j)
    /\ pc = "done" => best_model = best_model_per_gen[j + 1]

\* C5: when run has returned, the pool holds every candidate evaluated in the
\* run (size_pop per generation) and the returned Ensemble is that of a
\* candidate whose mean loss is no greater than any other candidate's.
C5_ReturnsMinimum ==
    pc = "done" =>
        /\ Len(val_loss) = size_pop * (j + 1)
        /\ Len(models) = Len(val_loss)
        /\ BestIndexes # {}
        /\ \A k \in BestIndexes : \A i \in 1..Len(val_loss) :
            LossLE(val_loss[k], val_loss[i])

\* run returned the Ensemble of a bred candidate that beat generation 0
C5_Witness ==
    /\ pc = "done"
    /\ j >= 1
    /\ \E k \in BestIndexes :
        /\ k > size_pop
        /\ \E i \in 1..size_pop : LossLT(val_loss[k], val_loss[i])

\* the loss a worker delivered for fold f of the individual uid
DeliveredLosses(uid, f) == {l \in 1..MaxLoss : <<uid, f, l>> \in delivered}
DeliveredLoss(uid, f) == CHOOSE l \in DeliveredLosses(uid, f) : TRUE

\* C6: function_fitness returns three sequences of the length of pop; at
\* every index i the mean loss is the mean of the n_splits losses the
\* workers delivered for pop[i], the Ensemble holds only models trained for
\* pop[i], and the returned individual carries pop[i]'s genes.
C6_AlignedByIndex ==
    pc = "returned" =>
        LET r == ret[1]
        IN  /\ Len(r.val_loss) = Len(ff_pop)
            /\ Len(r.models) = Len(ff_pop)
            /\ Len(r.individuals) = Len(ff_pop)
            /\ \A i \in 1..Len(ff_pop) :
                /\ \A f \in 0..(n_splits - 1) :
                    Cardinality(DeliveredLosses(ff_pop[i].uid, f)) = 1
                /\ r.val_loss[i] =
                       <<SumSeq([f \in 1..n_splits |->
                                    DeliveredLoss(ff_pop[i].uid, f - 1)]),
                         n_splits>>
                /\ \A f \in 1..n_splits :
                    /\ r.models[i].models[f] # <<>>
                    /\ r.models[i].models[f][1].of = ff_pop[i].uid
                /\ r.individuals[i] # <<>>
                /\ r.individuals[i][1].uid = ff_pop[i].uid
                /\ r.individuals[i][1].genes = ff_pop[i].genes

\* function_fitness returned for two candidates of different mean loss whose
\* results arrived out of task order
C6_Witness ==
    /\ pc = "returned"
    /\ sched = "any"
    /\ Len(ff_pop) = 2
    /\ LossLT(ret[1].val_loss[2], ret[1].val_loss[1])
    /\ ret[1].individuals[1][1].model[1].val_data.split.fold = 1
    /\ ret[1].individuals[2][1].model[1].val_data.split.fold = 3

\* C7: every Ensemble function_fitness returns holds n_splits models, and
\* the model at position f was trained and validated on the partition of
\* fold f.
C7_FoldOrder ==
    pc = "returned" =>
        \A i \in 1..Len(ff_pop) :
            /\ Len(ret[1].models[i].models) = n_splits
            /\ \A f \in 1..n_splits :
                LET m == ret[1].models[i].models[f]
                IN  /\ m # <<>>
                    /\ m[1].train_data = train_val_datas[f].train
                    /\ m[1].val_data = train_val_datas[f].val
                    /\ m[1].train_data.split.fold = f - 1
                    /\ m[1].val_data.split.fold = f - 1

\* function_fitness returned after the result of fold 0 arrived last
C7_Witness ==
    /\ pc = "returned"
    /\ sched = "any"
    /\ n_splits = NestedDefault
    /\ ret[1].individuals[1][1].model[1].val_data.split.fold = 0

\* C8: the task list of function_fitness has len(pop) * n_splits entries,
\* exactly one for each (individual index, fold index) pair, and each task
\* carries its individual and the train / validation data of its own fold.
C8_OneTaskPerPair ==
    pc = "evaluating" =>
        /\ Len(tasks) = Len(ff_pop) * n_splits
        /\ \A i \in 0..(Len(ff_pop) - 1), f \in 0..(n_splits - 1) :
            Cardinality({t \in 1..Len(tasks) :
                            /\ tasks[t].individual_id = i
                            /\ tasks[t].fold_id = f}) = 1
        /\ \A t \in 1..Len(tasks) :
            /\ tasks[t].individual = ff_pop[tasks[t].individual_id + 1]
            /\ tasks[t].train_data = train_val_datas[tasks[t].fold_id + 1].train
            /\ tasks[t].val_data = train_val_datas[tasks[t].fold_id + 1].val
            /\ tasks[t].train_data.split.fold = tasks[t].fold_id
            /\ tasks[t].val_data.split.fold = tasks[t].fold_id

\* the tasks of a bred generation of two children are built
C8_Witness ==
    /\ pc = "evaluating"
    /\ j = 1
    /\ Len(ff_pop) = 2
    /\ Len(tasks) = 2 * NestedDefault

\* every fold task of the individual with index i raised
AllFoldsFailed(i) ==
    /\ n_splits > 0
    /\ \A f \in 0..(n_splits - 1) : <<i, f>> \in failed

SentinelMean == <<n_splits * SENTINEL, n_splits>>

\* C9: a candidate all of whose fold tasks raised does not make run raise;
\* once its generation is ranked it is in the pool, which has size_pop
\* entries per generation, with the sentinel loss, and the ranking puts it
\* after every candidate of a smaller loss.
C9_AllFoldsFailedKept ==
    \A i \in 0..(size_pop - 1) :
        AllFoldsFailed(i) =>
            /\ pc # "raised"
            /\ pc \in {"ranked", "done"} =>
                /\ Len(val_loss) = size_pop * (j + 1)
                /\ val_loss[size_pop * j + i + 1] = SentinelMean
                /\ \A a, b \in 1..Len(ranking) :
                    (/\ ranking[a] = size_pop * j + i + 1
                     /\ LossLT(val_loss[ranking[b]], SentinelMean)) => b < a

FiveOfTen == {S \in SUBSET (1..NumGenes) : Cardinality(S) = 5}

\* C10: the child of a crossover has the 10 keys of GeneKeys in order; for
\* some 5 of the 10 positions it holds self's value of that key and for the
\* other 5 partner's; its val_loss and model are not set.  The child list of
\* the single-process crossover likewise holds mother's value at 5 positions
\* and father's at the other 5.
C10_CrossoverChild ==
    /\ lab.op = "crossover" =>
        /\ Len(lab.child.genes) = NumGenes
        /\ \A p \in 1..NumGenes : lab.child.genes[p][1] = GeneKeys[p]
        /\ \E S \in FiveOfTen : \A p \in 1..NumGenes :
            lab.child.genes[p] =
                IF p \in S THEN lab.self.genes[p] ELSE lab.partner.genes[p]
        /\ lab.child.val_loss = <<>>
        /\ lab.child.model = <<>>
    /\ lab.op = "list_crossover" =>
        /\ Len(lab.child) = NumGenes
        /\ \E S \in FiveOfTen : \A p \in 1..NumGenes :
            lab.child[p] = IF p \in S THEN lab.mother[p] ELSE lab.father[p]

\* a child of two evaluated parents that differ in every gene but act and
\* loss, for a draw of positions that is not a block
C10_Witness ==
    /\ lab.op = "crossover"
    /\ \A p \in 3..NumGenes : lab.self.genes[p] # lab.partner.genes[p]
    /\ lab.self.val_loss # <<>>
    /\ lab.sample = {0, 3, 4, 7, 9}
    /\ lab.child.genes[10] = lab.self.genes[10]
    /\ lab.child.genes[9] = lab.partner.genes[9]

\* the genes self.genes holds after the last operator applied alone, if any
LabGenomes ==
    IF lab.op = "mutation" THEN {lab.after}
    ELSE IF lab.op = "crossover" THEN {lab.child.genes}
    ELSE {}

\* the feature counts of the lists the single-process operators returned
LabListFeatCounts ==
    IF lab.op = "list_mutation"
    THEN {lab.after[c][1] : c \in 1..Len(lab.after)}
    ELSE IF lab.op = "list_crossover" THEN {lab.child[1]}
    ELSE {}

\* C11: after crossover and mutation, starting from new genomes on a dataset
\* of N features, every genome's n_feat is in 1..N
C11_FeatCountInRange ==
    /\ \A g \in LabGenomes : GeneValue(g, "n_feat") \in 1..N
    /\ \A nf \in LabListFeatCounts : nf \in 1..N

\* C12: after any sequence of mutations, every mutated field is in its
\* declared domain: initial_batch_size a positive member of
\* initial_batch_size_list, and each fraction a member of fraction_list
C12_FieldsInDomain ==
    lab.op = "mutation" =>
        /\ GeneValue(lab.after, "initial_batch_size") > 0
        /\ GeneValue(lab.after, "initial_batch_size")
              \in Range(initial_batch_size_list)
        /\ \A fk \in {"fraction1", "fraction2", "fraction3"} :
              GeneValue(lab.after, fk) \in Range(fraction_list)

\* the genes that no mutation touches
FrameKeys == {"act", "loss", "xscale", "lr"}

C13_StableRanking ==
    pc \in {"ranked", "done"} =>
        /\ \A a, b \in 1..Len(ranking) :
            a < b =>
                \/ LossLT(val_loss[ranking[a]], val_loss[ranking[b]])
                \/ /\ LossLE(val_loss[ranking[a]], val_loss[ranking[b]])
                   /\ LossLE(val_loss[ranking[b]], val_loss[ranking[a]])
                   /\ ranking[a] < ranking[b]
        /\ best_model = <<models[ranking[1]]>>
\* the tasks built for the individual of index i, and their fold ids
TasksOf(i) == {t \in 1..Len(tasks) : tasks[t].individual_id = i}
FoldIdsOf(i) == {tasks[t].fold_id : t \in TasksOf(i)}

\* function_fitness uses exactly `folds` folds: that many tasks per
\* candidate, one per fold id, and that many models in each Ensemble returned
UsesFolds(folds) ==
    /\ pc \in {"evaluating", "returned"} =>
        \A i \in 0..(Len(ff_pop) - 1) :
            /\ Cardinality(TasksOf(i)) = folds
            /\ FoldIdsOf(i) = 0..(folds - 1)
    /\ pc = "returned" =>
        \A i \in 1..Len(ff_pop) :
            /\ Len(ret[1].models[i].models) = folds
            /\ \A f \in 1..folds : ret[1].models[i].models[f] # <<>>

\* C14 as stated: a fold count <= 1 (1, 0, negative) gives 5 folds, a count
\* >= 2 gives that many
C14_FoldCountCoerced ==
    pc \in {"evaluating", "returned"} =>
        UsesFolds(IF nested <= 1 THEN 5 ELSE nested)

\* C14 as amended: the count 0 gives the single hold-out partition of
\* train_test_split (one task per candidate, one model per Ensemble); 1 and
\* the negative counts give 5 folds, a count >= 2 gives that many
C14_FoldCountOrHoldOut ==
    pc \in {"evaluating", "returned"} =>
        /\ UsesFolds(IF nested = 0 THEN 1
                     ELSE IF nested <= 1 THEN 5 ELSE nested)
        /\ \A t \in 1..Len(tasks) :
            tasks[t].train_data.split.kind =
                IF nested = 0 THEN "train_test_split" ELSE "kfold"

\* function_fitness has returned from a call with the fold count 1
C14_Witness ==
    /\ pc = "returned"
    /\ nested = 1
    /\ Len(ret[1].models[1].models) = 5
\* C15: in parent selection the weights are 1 / loss^10 normalized to sum 1;
\* a candidate whose loss is <= 0 counts as having the sentinel-high loss, so
\* its weight is the smallest, and no weight is a division by zero.
C15_WeightsGuarded ==
    lab.op = "select" =>
        LET n == Len(lab.ranking)
            loss(k) == lab.val_loss[lab.ranking[k]]
        IN  \* no division by zero, in 1 / l ** 10 or in w / sum(weights)
            /\ \A k \in 1..n : lab.raw[k][2] # 0 /\ lab.weights[k][2] # 0
            \* normalized: the weights sum to 1
            /\ SumSeq([k \in 1..n |-> lab.weights[k][1]]) = lab.weights[1][2]
            \* a positive loss weighs in proportion to 1 / loss^10
            /\ \A k, m \in 1..n :
                loss(k)[1] > 0 /\ loss(m)[1] > 0 =>
                    lab.weights[k][1] * loss(k)[1] ^ 10
                        = lab.weights[m][1] * loss(m)[1] ^ 10
            \* a loss <= 0 gets the smallest weight
            /\ \A k, m \in 1..n :
                loss(k)[1] <= 0 => lab.weights[k][1] <= lab.weights[m][1]
            /\ ~lab.parent.raises
\* the pools that are alive
AlivePools == {k \in 1..Len(pools) : pools[k] = "alive"}

\* C16: the pool of an evaluation phase is closed and joined before the
\* phase ends on every path, a failing task included: never two pools alive
\* at once, and none alive once function_fitness is over or run has returned
\* or raised.
C16_PoolClosed ==
    /\ Cardinality(AlivePools) <= 1
    /\ pc \in {"returned", "ranked", "done", "raised"} => AlivePools = {}
\* the steps of run in the order INITIALIZED, EVALUATING, RANKED, BREEDING,
\* EVALUATING, ..., CONVERGED | EXHAUSTED: breeding is the step from "ranked"
\* to "evaluating", both terminal states are "done"
OrderedStep ==
    \/ pc = "start" /\ pc' = "evaluating"
    \/ pc = "evaluating" /\ pc' \in {"evaluating", "returned"}
    \/ pc = "returned" /\ pc' \in {"ranked", "done"}
    \/ pc = "ranked" /\ pc' = "evaluating"

\* C17: for every num_generations >= 1 and size_pop >= 1, when every task
\* handed to a worker completes, run terminates in "done" after at most
\* num_generations evaluation phases (one pool each), and every step follows
\* the order of OrderedStep.
C17_Terminates ==
    /\ [][OrderedStep]_vars
    /\ [](Len(pools) <= num_generations)
    /\ <>(pc = "done")
\* the declared domain of every gene but n_feat
GeneDomain(key) ==
    IF key = "act" THEN {"elu"}
    ELSE IF key = "loss" THEN {"mae"}
    ELSE IF key = "n_neurons_first_layer" THEN {32 * n : n \in 1..10}
    ELSE IF key \in {"fraction1", "fraction2", "fraction3"}
    THEN Range(fraction_list)
    ELSE IF key = "xscale" THEN Range(xscale_list)
    ELSE IF key = "lr" THEN Range(lr_list)
    ELSE Range(initial_batch_size_list)

\* the size rule of the feature count for a dataset of n features
SizeRule(n, nf) ==
    IF n <= 100 THEN 2 * nf > n
    ELSE IF n < 2000 THEN nf % 10 = 0
    ELSE \E r \in 1..nf : r * r = nf

\* C18: for every feature count N >= 1 a new individual is made without an
\* error, holds the 10 recognized keys, each in its domain, and its n_feat
\* is in 1..N and follows the size rule; the single-process variant makes
\* its entries without an error and with n_feat in 1..N.
C18_NewGenomeTotal ==
    /\ lab.op = "new" =>
        /\ ~lab.raises
        /\ Len(lab.genes) = NumGenes
        /\ \A p \in 1..NumGenes : lab.genes[p][1] = GeneKeys[p]
        /\ \A p \in 1..(NumGenes - 1) :
              lab.genes[p][2] \in GeneDomain(GeneKeys[p])
        /\ GeneValue(lab.genes, "n_feat") \in 1..N
        /\ SizeRule(N, GeneValue(lab.genes, "n_feat"))
    /\ lab.op = "list_new" =>
        /\ ~lab.raises
        /\ Len(lab.genes) = NumGenes
        /\ lab.genes[1] \in 1..N
\* C19: two executions that start from the same seed of the random source
\* and the same inputs produce the same new genome, the same child of
\* crossover and the same result of mutation (the gate included).
C19_SeedDeterminism ==
    lab.op = "replay" =>
        /\ lab.first.new = lab.second.new
        /\ lab.first.child = lab.second.child
        /\ lab.first.mutated = lab.second.mutated
\* the positions of the pool that hold the Ensemble object m
OwnersOf(m) == {k \in 1..Len(models) : models[k].id = m.id}

\* C21: every evaluated candidate of the pool owns one Ensemble, built of
\* the models trained for it, and no two entries of the pool hold the same
\* Ensemble object, so each recorded best Ensemble belongs to one candidate
\* and two recorded bests are the same object only for the same candidate.
C21_OneEnsemblePerCandidate ==
    /\ pc \in {"ranked", "done"} =>
        /\ Len(models) = Len(individuals)
        /\ \A a, b \in 1..Len(models) : a # b => models[a].id # models[b].id
        /\ \A a \in 1..Len(models) : \A f \in 1..Len(models[a].models) :
              models[a].models[f][1].of = individuals[a][1].uid
        /\ \A g \in 1..(j + 1) :
              Cardinality(OwnersOf(best_model_per_gen[g][1])) = 1
    /\ pc = "returned" =>
        \A a \in 1..Len(ret[1].models) :
            /\ \A b \in 1..Len(ret[1].models) :
                  a # b => ret[1].models[a].id # ret[1].models[b].id
            /\ j > 0 => OwnersOf(ret[1].models[a]) = {}

\* run returned after a bred generation with the best Ensemble of
\* generation 0 still the best
C21_Witness ==
    /\ pc = "done"
    /\ j >= 1
    /\ Len(models) >= 2
    /\ SameObject(best_model_per_gen[1], best_model_per_gen[j + 1])

Neurons(genes) == GeneValue(genes, "n_neurons_first_layer")

\* C22: after crossover and mutation, starting from new genomes, the neuron
\* count of the first layer is a multiple of 32 and at least 32, and one
\* mutation changes it by at most 64.
C22_NeuronsMultipleOf32 ==
    /\ \A g \in LabGenomes : Neurons(g) % 32 = 0 /\ Neurons(g) >= 32
    /\ lab.op = "mutation" =>
        Abs(Neurons(lab.after) - Neurons(lab.before)) <= 64

\* a mutation, not the first along its line, that takes 64 neurons two steps
\* down: abs gives 0, which is reset to 32
C22_Witness ==
    /\ lab.op = "mutation" /\ lab.fired
    /\ lab.depth >= 2
    /\ Neurons(lab.before) = 64
    /\ lab.drawn.dneur = -2
    /\ Neurons(lab.after) = 32

Fractions == {"fraction1", "fraction2", "fraction3"}

\* C23: when the gate of a mutation fires, one of the three fractions gets
\* the value drawn for a new individual and the other two are as before.
C23_OneFractionReplaced ==
    lab.op = "mutation" /\ lab.fired =>
        \E fk \in Fractions :
            /\ GeneValue(lab.after, fk) = GeneValue(lab.drawn.fresh, fk)
            /\ \A o \in Fractions \ {fk} :
                  GeneValue(lab.after, o) = GeneValue(lab.before, o)

\* a mutation that changed one fraction and kept the two others, although
\* the new individual differs from the mutated one in all three
C23_Witness ==
    /\ lab.op = "mutation" /\ lab.fired
    /\ \A fk \in Fractions :
          GeneValue(lab.before, fk) # GeneValue(lab.drawn.fresh, fk)
    /\ Cardinality({fk \in Fractions :
            GeneValue(lab.after, fk) # GeneValue(lab.before, fk)}) = 1

FractionKeys == <<"fraction1", "fraction2", "fraction3">>

\* C24: when the gate of a mutation fires, the fraction that is replaced is
\* the one drawn among the first, the second and the third: the drawn one
\* holds the new individual's value afterwards.
C24_DrawnFractionReplaced ==
    lab.op = "mutation" /\ lab.fired =>
        GeneValue(lab.after, FractionKeys[lab.drawn.i]) =
            GeneValue(lab.drawn.fresh, FractionKeys[lab.drawn.i])

\* the candidates the current call of function_fitness has trained so far
TrainedInCall ==
    {gen_alg.trained[k].id :
        k \in (Len(gen_alg.trained) - gen_alg.at + 2)..Len(gen_alg.trained)}

\* C25: the candidates evaluated in a generation after the first are the
\* children bred in it (the population function_fitness is called with), and
\* no candidate is evaluated twice in a run.
C25_ChildrenEvaluatedOnce ==
    pc = "ga_fitness" =>
        /\ gen_alg.site \in {"child_1", "child_2"} =>
              TrainedInCall \subseteq
                  {gen_alg.arg_pop[c].id : c \in 1..Len(gen_alg.arg_pop)}
        /\ \A a, b \in 1..Len(gen_alg.trained) :
              a # b => gen_alg.trained[a].id # gen_alg.trained[b].id

\* C26: crossover and the mutation of the child leave the genes of both
\* parents as they were, also when one candidate is both parents; the child
\* has a dict of its own, and the evaluation gives back the genes it got.
C26_ParentsUnchanged ==
    lab.op = "breed" =>
        /\ lab.heap[1] = lab.a.genes
        /\ lab.heap[2] = lab.b.genes
        /\ lab.child \notin {1, 2}
        /\ lab.result.genes = lab.heap[lab.child]
        /\ lab.result.model[1].genes = lab.heap[lab.child]

\* a candidate that is both parents of a child whose mutation fired and
\* changed the child's genes
C26_Witness ==
    /\ lab.op = "breed"
    /\ lab.pair = <<1, 1>>
    /\ lab.fired
    /\ lab.heap[lab.child] # lab.a.genes

\* the mean loss recorded in the pool for the best model of generation g
\* (g counts from 1)
BestLoss(g) ==
    val_loss[CHOOSE k \in 1..Len(models) :
                 models[k].id = best_model_per_gen[g][1].id]

\* C27: the mean loss of the best candidate recorded for a generation is
\* never greater than that of the generation before.
C27_BestLossNonIncreasing ==
    pc \in {"ranked", "done"} =>
        \A g \in 1..j : LossLE(BestLoss(g + 1), BestLoss(g))

\* a run whose last generation found a strictly better candidate than the
\* first, after a generation that found none
C27_Witness ==
    /\ pc = "done" /\ j >= 2
    /\ LossLT(BestLoss(j + 1), BestLoss(1))
    /\ BestLoss(2) = BestLoss(1)

\* the turns of the for loop the current call of function_fitness has made
TurnsOfCall ==
    SubSeq(gen_alg.trained, Len(gen_alg.trained) - gen_alg.at + 2,
           Len(gen_alg.trained))

Succeeded(e) == ~e.outcome.raises

\* C28: in the single-process variant self.fitness holds one row, with the
\* loss that was measured, for each candidate whose training did not raise,
\* in the order of the loop, and nothing for the others; the loop goes on
\* to the last candidate and no step leaves function_fitness before.
C28_FailedTrainingDropped ==
    /\ pc = "ga_fitness" =>
        LET ok == SelectSeq(TurnsOfCall, Succeeded)
        IN  /\ Len(TurnsOfCall) = gen_alg.at - 1
            /\ gen_alg.fitness =
                  [k \in 1..Len(ok) |->
                      [f |-> ok[k].outcome.f, model |-> ok[k].model,
                       w |-> CHOOSE c \in Range(gen_alg.self_pop) :
                                c.id = ok[k].id]]
            /\ \A k \in 1..Len(gen_alg.fitness) :
                  gen_alg.fitness[k].f < SENTINEL
    /\ pc \in {"ga_loop", "ga_done", "ga_raised"} =>
        /\ gen_alg.at = Len(gen_alg.self_pop) + 1
        /\ Len(gen_alg.trained) % Len(gen_alg.self_pop) = 0

\* a call in which the training of the first candidate raised and that of
\* the second gave a loss
C28_Witness ==
    /\ pc = "ga_fitness"
    /\ gen_alg.at = 3
    /\ TurnsOfCall[1].outcome.raises
    /\ ~TurnsOfCall[2].outcome.raises
    /\ Len(gen_alg.fitness) = 1
====
